---- MODULE Spec2Model ----
(***************************************************************************)
(* Model of the news aggregation pipeline of package data                  *)
(* (src/unnamed/part_000): RunNewsPipeline, the four source adapters,      *)
(* doGetWithRetry and deduplicateArticles.                                 *)
(*                                                                         *)
(* Strings that the code concatenates (the URL and the title digest of the *)
(* deduplication key) are sequences of one-character strings, so that the  *)
(* concatenation is computed and not assumed to be injective.              *)
(***************************************************************************)
EXTENDS Integers, Sequences, FiniteSets, TLC

\* ------------------------------------------------------------------ bounds

\* Longest article list handed to deduplicateArticles on its own.
MaxLen == 3

\* ------------------------------------------------------- program constants

\* for i := 0; i < 3; i++ in doGetWithRetry.
MaxAttempts == 3

\* http.StatusOK, the only status doGetWithRetry accepts.
StatusOK == 200

\* ------------------------------------------------------------- NewsArticle

\* URLs, as character sequences. u3 is u1 followed by "_" and the digest of
\* T1: a URL that looks like a deduplication key.
u1 == <<"u", "1">>
u2 == <<"u", "2">>
u3 == <<"u", "1", "_", "a", "9">>

URLs == {u1, u2, u3}

Titles == {"T1", "T2"}

\* fmt.Sprintf("%x", sha1.Sum([]byte(title))): a digest of fixed length, taken
\* to be collision-free on the titles of the model.
Sha1Hex(title) == IF title = "T1" THEN <<"a", "9">> ELSE <<"3", "f">>

\* A key without the title digest.
dedupKeyURLOnly(a) == a.URL

\* A key that also holds the record's Source.
dedupKeyWithSource(a) == a.URL \o <<"_">> \o Sha1Hex(a.Title) \o <<"_", a.Source>>

\* key := fmt.Sprintf("%s_%x", a.URL, sha1.Sum([]byte(a.Title)))
dedupKey(a) == a.URL \o <<"_">> \o Sha1Hex(a.Title)

\* A map that remembers only the key seen last.
markSeenLastOnly(seen, key) == {key}

\* seen[key] = struct{}{}
markSeen(seen, key) == seen \cup {key}

\* A record put at the front of the result.
keepInFront(result, a) == <<a>> \o result

\* result = append(result, a)
keep(result, a) == Append(result, a)

RECURSIVE dedupLoop(_, _, _)
\* The loop of deduplicateArticles: seen is the map of keys, result the slice.
dedupLoop(articles, seen, result) ==
    IF articles = <<>>
    THEN result
    ELSE LET a == Head(articles)
             key == dedupKey(a)
         IN IF key \in seen
            THEN dedupLoop(Tail(articles), seen, result)
            ELSE dedupLoop(Tail(articles), markSeen(seen, key), keep(result, a))

\* A deduplication that drops a record only when it repeats the key of the
\* record just before it.
deduplicateAdjacent(articles) ==
    LET kept == {i \in 1..Len(articles) :
                    i = 1 \/ dedupKey(articles[i]) # dedupKey(articles[i - 1])}
    IN [k \in 1..Cardinality(kept) |->
           articles[CHOOSE i \in kept : Cardinality({j \in kept : j < i}) = k - 1]]

\* func deduplicateArticles(articles []NewsArticle) []NewsArticle
deduplicateArticles(articles) == dedupLoop(articles, {}, <<>>)

\* ------------------------------------------------------------------ errors

\* An error value: what failed, on which attempt of doGetWithRetry (0 when it
\* is not an attempt's error) and, for a bad status, the status.
MkErr(kind, attempt, status) == [kind |-> kind, attempt |-> attempt, status |-> status]

\* The nil error.
Nil == MkErr("nil", 0, 0)

\* ---------------------------------------------------------- the HTTP layer

\* A response body: valid says whether json.Unmarshal accepts it, items is
\* what it decodes to.
MkBody(valid, items) == [isNil |-> FALSE, valid |-> valid, items |-> items]

\* The nil byte slice doGetWithRetry returns with an error.
NoBody == [isNil |-> TRUE, valid |-> FALSE, items |-> <<>>]

\* What one client.Do(req) followed by io.ReadAll(resp.Body) meets: 
\*   do = "transport": client.Do returns an error that is not the context's;
\*   do = "ctx":       client.Do returns the context's error (cancelled, expired);
\*   do = "resp":      a response with the given status, whose body reads
\*                     (read = "ok") or fails to read (read = "err").
MkResp(do, status, read, body) == [do |-> do, status |-> status, read |-> read, body |-> body]

TransportFailure == MkResp("transport", 0, "none", NoBody)

CtxFailure == MkResp("ctx", 0, "none", NoBody)

\* Statuses the model's servers answer with: 200, another 2xx, and a 5xx.
Statuses == {200, 204, 500}

ResponsesOver(bodies) ==
    {TransportFailure, CtxFailure}
    \cup {MkResp("resp", s, r, b) : s \in Statuses, r \in {"ok", "err"}, b \in bodies}

\* A script is what the network answers to the 1st, 2nd and 3rd attempt of one
\* call. A context stays done once it is done.
ScriptsOver(responses) ==
    {sc \in [1..MaxAttempts -> responses] :
        \A i \in 1..(MaxAttempts - 1) : sc[i].do = "ctx" => sc[i + 1].do = "ctx"}

\* The company identifiers of the model: a ticker, and one with a control
\* character, for which http.NewRequestWithContext fails to parse the URL.
Companies == {"AAPL", "AA\nPL"}

\* req, err := http.NewRequestWithContext(ctx, http.MethodGet, url, nil); err != nil
newRequestFails(company) == company = "AA\nPL"

\* What one call of doGetWithRetry did besides returning: attempts counts the
\* client.Do calls, sleeps the time.Sleep calls, opened the responses obtained,
\* drained the io.ReadAll(resp.Body) calls and closed the resp.Body.Close()
\* calls; openAtStart holds, for every attempt, how many bodies were open when
\* it began.
NoStats ==
    [attempts |-> 0, sleeps |-> 0, opened |-> 0, drained |-> 0, closed |-> 0,
     openAtStart |-> <<>>]

GetResult(body, err, st) ==
    [body |-> body, err |-> err, attempts |-> st.attempts, sleeps |-> st.sleeps,
     opened |-> st.opened, drained |-> st.drained, closed |-> st.closed,
     openAtStart |-> st.openAtStart]

\* The error an attempt that met response r on attempt number n leaves in lastErr.
attemptErr(r, n) ==
    IF r.do # "resp" THEN MkErr(r.do, n, 0)
    ELSE IF r.status # StatusOK THEN MkErr("status", n, r.status)
    ELSE MkErr("read", n, 0)

\* A status check that accepts every 2xx status.
attemptSucceeds2xx(r) == r.do = "resp" /\ r.status \in 200..299 /\ r.read = "ok"

\* Whether the attempt that met r ends the call with r's body.
attemptSucceeds(r) == r.do = "resp" /\ r.status = StatusOK /\ r.read = "ok"

\* lastErr set by the first failed attempt only.
nextLastErrKeepFirst(lastErr, r, n) == IF lastErr = Nil THEN attemptErr(r, n) ELSE lastErr

\* lastErr = err (or the status error) on a failed attempt.
nextLastErr(lastErr, r, n) == attemptErr(r, n)

\* time.Sleep(500 * time.Millisecond) after a failed attempt number n.
sleepsAfter(n) == 1

\* A body closed on the 200 branch only.
closesOnOKOnly(r) == IF r.do = "resp" /\ r.status = StatusOK THEN 1 ELSE 0

\* io.ReadAll(resp.Body): called in the bad-status branch and in the 200
\* branch.
readsOn(r) == IF r.do = "resp" THEN 1 ELSE 0

\* resp.Body.Close(): called in the bad-status branch and after io.ReadAll in
\* the 200 branch; there is no response to close after a client.Do error.
closesOn(r) == IF r.do = "resp" THEN 1 ELSE 0

RECURSIVE retryLoop(_, _, _, _, _)
\* for i := 0; i < 3; i++ { ... } return nil, lastErr
retryLoop(company, script, i, lastErr, st) ==
    IF i >= MaxAttempts
    THEN GetResult(NoBody, lastErr, st)
    ELSE IF newRequestFails(company)
    THEN GetResult(NoBody, MkErr("request", 0, 0), st)
    ELSE LET r == script[i + 1]
             got == IF r.do = "resp" THEN 1 ELSE 0
             st1 == [attempts |-> st.attempts + 1,
                     sleeps |-> st.sleeps,
                     opened |-> st.opened + got,
                     drained |-> st.drained + readsOn(r),
                     closed |-> st.closed + closesOn(r),
                     openAtStart |-> Append(st.openAtStart, st.opened - st.closed)]
         IN IF attemptSucceeds(r)
            THEN GetResult(r.body, Nil, st1)
            ELSE retryLoop(company, script, i + 1, nextLastErr(lastErr, r, i + 1),
                           [st1 EXCEPT !.sleeps = @ + sleepsAfter(i + 1)])

\* func doGetWithRetry(ctx context.Context, url string) ([]byte, error)
doGetWithRetry(company, script) == retryLoop(company, script, 0, Nil, NoStats)

\* ------------------------------------------------------------ the adapters

\* The names of the four sources, in the order of the fetchers table.
SourceNames == <<"Marketaux", "Finnhub", "EODHD", "GoogleCSE">>

\* The environment variables an adapter reads with os.Getenv.
KeysOf(fn) ==
    CASE fn = "fetchFromMarketaux" -> {"MARKETAUX_API_KEY"}
      [] fn = "fetchFromFinnhub" -> {"FINNHUB_API_KEY"}
      [] fn = "fetchFromEODHD" -> {"EODHD_API_KEY"}
      [] fn = "fetchFromGoogleCSE" -> {"GOOGLE_CSE_API_KEY", "GOOGLE_CSE_ID"}

AllKeys == {"MARKETAUX_API_KEY", "FINNHUB_API_KEY", "EODHD_API_KEY",
            "GOOGLE_CSE_API_KEY", "GOOGLE_CSE_ID"}

\* What a call of an adapter returns and did: gets counts its calls of
\* doGetWithRetry, attempts the client.Do calls made in them.
FetchResult(articles, err, gets, g) ==
    [articles |-> articles, err |-> err, gets |-> gets, attempts |-> g.attempts,
     sleeps |-> g.sleeps, opened |-> g.opened, closed |-> g.closed]

\* json.Unmarshal(body, &resp) followed by the loop that copies every item
\* into a NewsArticle.
toArticles(items) ==
    [k \in 1..Len(items) |->
        [Source |-> items[k].source, Title |-> items[k].title, URL |-> items[k].url]]

\* An adapter that fetches before it looks at its limit and its credentials.
fetchAdapterGetFirst(limit, haveKeys, company, script) ==
    LET g == doGetWithRetry(company, script)
    IN IF limit <= 0
       THEN FetchResult(<<>>, MkErr("limit reached", 0, 0), 1, g)
       ELSE IF ~haveKeys
       THEN FetchResult(<<>>, MkErr("key not set", 0, 0), 1, g)
       ELSE IF g.err # Nil
       THEN FetchResult(<<>>, g.err, 1, g)
       ELSE IF ~g.body.valid
       THEN FetchResult(<<>>, MkErr("unmarshal", 0, 0), 1, g)
       ELSE FetchResult(toArticles(g.body.items), Nil, 1, g)

\* An adapter that fetches once more when the body does not decode, the
\* network answering the second call as it answered the attempts after the
\* first call's last.
fetchAdapterRefetch(limit, haveKeys, company, script) ==
    IF limit <= 0
    THEN FetchResult(<<>>, MkErr("limit reached", 0, 0), 0, NoStats)
    ELSE IF ~haveKeys
    THEN FetchResult(<<>>, MkErr("key not set", 0, 0), 0, NoStats)
    ELSE LET g == doGetWithRetry(company, script)
             rest == [i \in 1..MaxAttempts |->
                         script[IF g.attempts + i <= MaxAttempts THEN g.attempts + i
                                ELSE MaxAttempts]]
             h == doGetWithRetry(company, rest)
             both == [g EXCEPT !.attempts = @ + h.attempts, !.sleeps = @ + h.sleeps,
                               !.opened = @ + h.opened, !.closed = @ + h.closed]
         IN IF g.err # Nil
            THEN FetchResult(<<>>, g.err, 1, g)
            ELSE IF g.body.valid
            THEN FetchResult(toArticles(g.body.items), Nil, 1, g)
            ELSE IF h.err = Nil /\ h.body.valid
            THEN FetchResult(toArticles(h.body.items), Nil, 2, both)
            ELSE FetchResult(<<>>, MkErr("unmarshal", 0, 0), 2, both)

\* The body shared by the four fetchFromX functions: the limit check, the
\* credential check, one doGetWithRetry, the decoding.
fetchAdapter(limit, haveKeys, company, script) ==
    IF limit <= 0
    THEN FetchResult(<<>>, MkErr("limit reached", 0, 0), 0, NoStats)
    ELSE IF ~haveKeys
    THEN FetchResult(<<>>, MkErr("key not set", 0, 0), 0, NoStats)
    ELSE LET g == doGetWithRetry(company, script)
         IN IF g.err # Nil
            THEN FetchResult(<<>>, g.err, 1, g)
            ELSE IF ~g.body.valid
            THEN FetchResult(<<>>, MkErr("unmarshal", 0, 0), 1, g)
            ELSE FetchResult(toArticles(g.body.items), Nil, 1, g)

\* func fetchFromMarketaux(ctx, company, cfg)
fetchFromMarketaux(c, environ, company, script) ==
    fetchAdapter(c.MarketauxLimit, KeysOf("fetchFromMarketaux") \subseteq environ,
                 company, script)

\* func fetchFromFinnhub(ctx, company, cfg)
fetchFromFinnhub(c, environ, company, script) ==
    fetchAdapter(c.FinnhubLimit, KeysOf("fetchFromFinnhub") \subseteq environ,
                 company, script)

\* func fetchFromEODHD(ctx, company, cfg)
fetchFromEODHD(c, environ, company, script) ==
    fetchAdapter(c.EODHDLimit, KeysOf("fetchFromEODHD") \subseteq environ,
                 company, script)

\* func fetchFromGoogleCSE(ctx, company, cfg)
fetchFromGoogleCSE(c, environ, company, script) ==
    fetchAdapter(c.GoogleCSELimit, KeysOf("fetchFromGoogleCSE") \subseteq environ,
                 company, script)

\* A call through a function value of the fetchers table.
callFetch(fn, c, environ, company, script) ==
    CASE fn = "fetchFromMarketaux" -> fetchFromMarketaux(c, environ, company, script)
      [] fn = "fetchFromFinnhub" -> fetchFromFinnhub(c, environ, company, script)
      [] fn = "fetchFromEODHD" -> fetchFromEODHD(c, environ, company, script)
      [] fn = "fetchFromGoogleCSE" -> fetchFromGoogleCSE(c, environ, company, script)

\* ----------------------------------------------------------- configuration

\* type NewsPipelineConfig struct, from the settings of the four sources.
MkConfig(m, f, e, g) ==
    [FreeMode |-> TRUE,
     UseMarketaux |-> m.use, MarketauxLimit |-> m.limit, SkipMarketaux |-> m.skip,
     UseFinnhub |-> f.use, FinnhubLimit |-> f.limit, SkipFinnhub |-> f.skip,
     UseEODHD |-> e.use, EODHDLimit |-> e.limit, SkipEODHD |-> e.skip,
     UseGoogleCSE |-> g.use, GoogleCSELimit |-> g.limit, SkipGoogleCSE |-> g.skip]

Setting(use, skip, limit) == [use |-> use, skip |-> skip, limit |-> limit]

\* The default config that init() stores in the package variable config.
DefaultConfig ==
    MkConfig(Setting(TRUE, FALSE, 100), Setting(TRUE, FALSE, 100),
             Setting(TRUE, FALSE, 20), Setting(TRUE, FALSE, 50))

\* The settings of one source a caller's config is drawn from: in use,
\* disabled, skipped, with a limit of 0.
SourceSettings ==
    {Setting(TRUE, FALSE, 10), Setting(FALSE, FALSE, 10), Setting(TRUE, TRUE, 10),
     Setting(TRUE, FALSE, 0)}

\* Settings that add nothing but their values: a negative limit, a source both
\* disabled and skipped, a skipped source without a limit.
OddSettings == {Setting(TRUE, FALSE, -1), Setting(FALSE, TRUE, 10), Setting(TRUE, TRUE, 0)}

\* The configs a caller passes: every combination of the four settings, and
\* each odd setting for one source beside one source in use.
Configs ==
    {MkConfig(m, f, e, g) : m \in SourceSettings, f \in SourceSettings,
                            e \in SourceSettings, g \in SourceSettings}
    \cup {MkConfig(o, Setting(TRUE, FALSE, 10), o, o) : o \in OddSettings}
    \cup {MkConfig(Setting(TRUE, FALSE, 10), o, o, o) : o \in OddSettings}

\* --------------------------------------------------------------- the state

VARIABLES
    callerCfg,          \* the struct the caller's cfg points to
    cfgNil,             \* whether the caller passed cfg == nil
    config,             \* the package variable config (the default config)
    company,            \* the company argument
    environ,            \* the environment variables that are set (non-empty)
    ctxDone,            \* whether ctx is cancelled or expired
    pc,                 \* RunNewsPipeline: "call", "loop", "returned"
    cfgCopy,            \* cfgCopy := *cfg
    fetchers,           \* the fetchers table
    idx,                \* the position of the dispatch loop in fetchers, from 1
    units,              \* the goroutines, by the iteration that started them
    mu,                 \* sync.Mutex: 0 when free, else the unit that holds it
    wg,                 \* sync.WaitGroup's counter
    allArticles,        \* the shared accumulator
    errs,               \* the shared error list
    newsFetchCount,     \* news_fetch_requests_total, by source label
    newsFetchErrors,    \* news_fetch_errors_total, by source label
    newsFetchDuration,  \* observations of news_fetch_duration_seconds, by label
    fetchCalls,         \* how often each fetchFromX function was called
    ret,                \* what RunNewsPipeline returned
    probe               \* a direct call of one function, outside a run

vars ==
    <<callerCfg, cfgNil, config, company, environ, ctxDone, pc, cfgCopy, fetchers,
      idx, units, mu, wg, allArticles, errs, newsFetchCount, newsFetchErrors,
      newsFetchDuration, fetchCalls, ret, probe>>

runVars ==
    <<callerCfg, cfgNil, config, company, environ, ctxDone, pc, cfgCopy, fetchers,
      idx, units, mu, wg, allArticles, errs, newsFetchCount, newsFetchErrors,
      newsFetchDuration, fetchCalls, ret>>

Names == {SourceNames[k] : k \in 1..Len(SourceNames)}

FetchFns == {"fetchFromMarketaux", "fetchFromFinnhub", "fetchFromEODHD",
             "fetchFromGoogleCSE"}

\* The positions of the fetchers table, which name the goroutines too.
Slots == 1..Len(SourceNames)

\* A goroutine that was not started.
NoUnit ==
    [pc |-> "none", name |-> "", fetch |-> "", called |-> "", ctxAtStart |-> FALSE,
     articles |-> <<>>, err |-> Nil, snap |-> <<>>]

\* fmt.Errorf("%s: %w", name, err)
wrapErr(name, err) == [source |-> name, err |-> err]

\* A join that keeps the first error only.
errorsJoinFirstOnly(es) ==
    IF Len(es) = 0 THEN [isNil |-> TRUE, errs |-> <<>>] ELSE [isNil |-> FALSE, errs |-> <<es[1]>>]

\* errors.Join(errs...): nil when no error is given, else the errors joined.
errorsJoin(es) ==
    IF Len(es) = 0 THEN [isNil |-> TRUE, errs |-> <<>>] ELSE [isNil |-> FALSE, errs |-> es]

NoRet == [articles |-> <<>>, err |-> errorsJoin(<<>>)]

NoProbe == [fn |-> "none"]

\* The variables of a run before RunNewsPipeline is called, but for its
\* arguments and the environment.
RunIdle ==
    /\ config = DefaultConfig
    /\ ctxDone = FALSE
    /\ pc = "call"
    /\ cfgCopy = DefaultConfig
    /\ fetchers = <<>>
    /\ idx = 1
    /\ units = [u \in Slots |-> NoUnit]
    /\ mu = 0
    /\ wg = 0
    /\ allArticles = <<>>
    /\ errs = <<>>
    /\ newsFetchCount = [n \in Names |-> 0]
    /\ newsFetchErrors = [n \in Names |-> 0]
    /\ newsFetchDuration = [n \in Names |-> 0]
    /\ fetchCalls = [fn \in FetchFns |-> 0]
    /\ ret = NoRet

\* ---------------------------------------------------------- RunNewsPipeline

\* What the model's servers send to a run: each source has one feed. The
\* feeds overlap: Marketaux and EODHD are the A and C of the spec's example,
\* Finnhub repeats a record of its own, GoogleCSE has the URL of one record
\* and the title of another.
Item(source, title, url) == [source |-> source, title |-> title, url |-> url]

Feed(name) ==
    CASE name = "Marketaux" -> <<Item("m", "T1", u1), Item("m", "T1", u2)>>
      [] name = "Finnhub" -> <<Item("f", "T2", u2), Item("f", "T2", u2)>>
      [] name = "EODHD" -> <<Item("e", "T1", u1), Item("e", "T2", u3)>>
      [] name = "GoogleCSE" -> <<Item("g", "T2", u1)>>

\* The source a fetchFromX function asks.
SourceOf(fn) ==
    CASE fn = "fetchFromMarketaux" -> "Marketaux"
      [] fn = "fetchFromFinnhub" -> "Finnhub"
      [] fn = "fetchFromEODHD" -> "EODHD"
      [] fn = "fetchFromGoogleCSE" -> "GoogleCSE"

\* The answers a server gives during a run: the feed, or a failure.
RunResponses(fn) ==
    {MkResp("resp", StatusOK, "ok", MkBody(TRUE, Feed(SourceOf(fn)))), TransportFailure}

\* The scripts a call that started with the context done or not (atStart) and
\* returns with it done or not (atEnd) can have met.
RunScripts(fn, atStart, atEnd) ==
    IF atStart THEN {[i \in 1..MaxAttempts |-> CtxFailure]}
    ELSE IF atEnd THEN ScriptsOver(RunResponses(fn) \cup {CtxFailure})
    ELSE ScriptsOver(RunResponses(fn))

\* The company and the environment of a run: every key set, one key missing,
\* a company that makes no URL.
RunInputs ==
    {[company |-> "AAPL", environ |-> AllKeys],
     [company |-> "AAPL", environ |-> AllKeys \ {"FINNHUB_API_KEY"}],
     [company |-> "AA\nPL", environ |-> AllKeys]}

\* What a call of fetch that started with the context done or not (atStart)
\* and returns with it done or not (atEnd) can return.
fetchOutcomes(fn, c, env, comp, atStart, atEnd) ==
    {callFetch(fn, c, env, comp, script) : script \in RunScripts(fn, atStart, atEnd)}

\* The fetchers table built from cfgCopy.
Fetchers(c) ==
    <<[name |-> "Marketaux", use |-> c.UseMarketaux, skip |-> c.SkipMarketaux,
       limit |-> c.MarketauxLimit, fetch |-> "fetchFromMarketaux"],
      [name |-> "Finnhub", use |-> c.UseFinnhub, skip |-> c.SkipFinnhub,
       limit |-> c.FinnhubLimit, fetch |-> "fetchFromFinnhub"],
      [name |-> "EODHD", use |-> c.UseEODHD, skip |-> c.SkipEODHD,
       limit |-> c.EODHDLimit, fetch |-> "fetchFromEODHD"],
      [name |-> "GoogleCSE", use |-> c.UseGoogleCSE, skip |-> c.SkipGoogleCSE,
       limit |-> c.GoogleCSELimit, fetch |-> "fetchFromGoogleCSE"]>>

\* An adapter that counts its request against its limit in the config it is
\* given.
cfgAfterFetchSpendsLimit(fn, c) ==
    CASE fn = "fetchFromMarketaux" -> [c EXCEPT !.MarketauxLimit = @ - 1]
      [] fn = "fetchFromFinnhub" -> [c EXCEPT !.FinnhubLimit = @ - 1]
      [] fn = "fetchFromEODHD" -> [c EXCEPT !.EODHDLimit = @ - 1]
      [] fn = "fetchFromGoogleCSE" -> [c EXCEPT !.GoogleCSELimit = @ - 1]

\* What the config behind the pointer &cfgCopy holds after a call of fetch:
\* the four adapters read cfg.XLimit and assign to no field of *cfg.
cfgAfterFetch(fn, c) == c

\* A participation test that forgets the limit.
skippedIgnoringLimit(fetcher) == ~fetcher.use \/ fetcher.skip

\* A participation test that forgets the skip flag.
skippedIgnoringSkip(fetcher) == ~fetcher.use \/ fetcher.limit <= 0

\* if !fetcher.use || fetcher.skip || fetcher.limit <= 0 { continue }
skipped(fetcher) == ~fetcher.use \/ fetcher.skip \/ fetcher.limit <= 0

\* A goroutine that calls the last fetch function of the table, whatever its
\* own source.
goArgsLastFetch(fetcher) == [name |-> fetcher.name, fetch |-> "fetchFromGoogleCSE"]

\* The arguments the go statement passes: (fetcher.name, fetcher.fetch).
goArgs(fetcher) == [name |-> fetcher.name, fetch |-> fetcher.fetch]

\* A mutex that lets every goroutine in.
lockAlwaysFree(m) == TRUE

\* mu.Lock() returns when no goroutine holds mu.
lockFree(m) == m = 0

\* append(list, more...) that puts the new elements in front.
appendInFront(list, more) == more \o list

\* append(list, more...)
appendTo(list, more) == list \o more

\* A counter that counts every event twice.
incTwice(vec, label) == [vec EXCEPT ![label] = @ + 2]

\* vec.WithLabelValues(label).Inc()
inc(vec, label) == [vec EXCEPT ![label] = @ + 1]

\* A goroutine that does not signal the wait group when it returns early with
\* an error.
wgDoneNotOnError(counter, err) == IF err # Nil THEN counter ELSE counter - 1

\* defer wg.Done(): runs however the goroutine returns, with the error err of
\* its fetch or without one.
wgDone(counter, err) == counter - 1

\* defer mu.Unlock(): runs however the goroutine returns.
unlock(m) == 0

\* A barrier that opens while one goroutine is still running.
waitDoneButOne(counter) == counter <= 1

\* A barrier that does not wait.
waitDoneAtOnce(counter) == TRUE

\* wg.Wait() returns.
waitDone(counter) == counter = 0

\* A return that gives up the articles when a source failed.
resultNoneOnError(articles, es) ==
    [articles |-> IF Len(es) = 0 THEN deduplicateArticles(articles) ELSE <<>>,
     err |-> errorsJoin(es)]

\* uniqueArticles := deduplicateArticles(allArticles);
\* return uniqueArticles, errors.Join(errs...)
result(articles, es) == [articles |-> deduplicateArticles(articles), err |-> errorsJoin(es)]

\* The state before a call of RunNewsPipeline with some config (or nil), some
\* company and some environment.
Init ==
    /\ RunIdle
    /\ \/ cfgNil = TRUE /\ callerCfg = DefaultConfig
       \/ cfgNil = FALSE /\ callerCfg \in Configs
    /\ \E inp \in RunInputs : company = inp.company /\ environ = inp.environ
    /\ probe = NoProbe

\* if cfg == nil { cfg = config }; cfgCopy := *cfg; fetchers := ...
RunStart ==
    /\ pc = "call"
    /\ pc' = "loop"
    /\ cfgCopy' = (IF cfgNil THEN config ELSE callerCfg)
    /\ fetchers' = Fetchers(cfgCopy')
    /\ idx' = 1
    /\ UNCHANGED <<callerCfg, cfgNil, config, company, environ, ctxDone, units, mu, wg,
                   allArticles, errs, newsFetchCount, newsFetchErrors,
                   newsFetchDuration, fetchCalls, ret, probe>>

\* One iteration of for _, fetcher := range fetchers: skip the source, or
\* wg.Add(1) and start its goroutine.
Dispatch ==
    /\ pc = "loop"
    /\ idx <= Len(fetchers)
    /\ idx' = idx + 1
    /\ IF skipped(fetchers[idx])
       THEN UNCHANGED <<wg, units>>
       ELSE /\ wg' = wg + 1
            /\ units' = [units EXCEPT ![idx] =
                            [NoUnit EXCEPT !.pc = "spawned",
                                           !.name = goArgs(fetchers[idx]).name,
                                           !.fetch = goArgs(fetchers[idx]).fetch]]
    /\ UNCHANGED <<callerCfg, cfgNil, config, company, environ, ctxDone, pc, cfgCopy,
                   fetchers, mu, allArticles, errs, newsFetchCount, newsFetchErrors,
                   newsFetchDuration, fetchCalls, ret, probe>>

\* A goroutine starts: newsFetchCount.WithLabelValues(name).Inc(), and the
\* call fetch(ctx, company, &cfgCopy) begins.
UnitStart(u) ==
    /\ units[u].pc = "spawned"
    /\ newsFetchCount' = inc(newsFetchCount, units[u].name)
    /\ fetchCalls' = [fetchCalls EXCEPT ![units[u].fetch] = @ + 1]
    /\ units' = [units EXCEPT ![u].pc = "inflight",
                              ![u].called = units[u].fetch,
                              ![u].ctxAtStart = ctxDone]
    /\ UNCHANGED <<callerCfg, cfgNil, config, company, environ, ctxDone, pc, cfgCopy,
                   fetchers, idx, mu, wg, allArticles, errs, newsFetchErrors,
                   newsFetchDuration, ret, probe>>

\* The call of fetch returns, and the goroutine observes the duration. The
\* call reads cfgCopy and ctx and writes no shared variable, so its attempts
\* are not steps of their own: what the attempts met, the context ending
\* between two of them included, is the script RunScripts draws.
UnitFetched(u) ==
    /\ units[u].pc = "inflight"
    /\ \E r \in fetchOutcomes(units[u].fetch, cfgCopy, environ, company,
                               units[u].ctxAtStart, ctxDone) :
          units' = [units EXCEPT ![u].pc = "fetched",
                                 ![u].ctxAtStart = FALSE,
                                 ![u].articles = r.articles,
                                 ![u].err = r.err]
    /\ cfgCopy' = cfgAfterFetch(units[u].fetch, cfgCopy)
    /\ newsFetchDuration' = [newsFetchDuration EXCEPT ![units[u].name] = @ + 1]
    /\ UNCHANGED <<callerCfg, cfgNil, config, company, environ, ctxDone, pc, fetchers,
                   idx, mu, wg, allArticles, errs, newsFetchCount, newsFetchErrors,
                   fetchCalls, ret, probe>>

\* mu.Lock() returns, and the critical section begins: append reads the slice
\* it extends, errs when fetch returned an error and allArticles else. Until
\* the goroutine assigns the extended slice it holds what it read.
UnitLock(u) ==
    /\ units[u].pc = "fetched"
    /\ lockFree(mu)
    /\ mu' = u
    /\ units' = [units EXCEPT ![u].pc = "locked",
                              ![u].snap = IF units[u].err # Nil THEN errs ELSE allArticles]
    /\ UNCHANGED <<callerCfg, cfgNil, config, company, environ, ctxDone, pc, cfgCopy,
                   fetchers, idx, wg, allArticles, errs, newsFetchCount,
                   newsFetchErrors, newsFetchDuration, fetchCalls, ret, probe>>

\* The rest of the critical section and the deferred calls: the extended
\* slice is assigned (with newsFetchErrors...Inc() in the error branch), then
\* mu.Unlock() and wg.Done().
UnitAppend(u) ==
    /\ units[u].pc = "locked"
    /\ IF units[u].err # Nil
       THEN /\ newsFetchErrors' = inc(newsFetchErrors, units[u].name)
            /\ errs' = appendTo(units[u].snap, <<wrapErr(units[u].name, units[u].err)>>)
            /\ UNCHANGED allArticles
       ELSE /\ allArticles' = appendTo(units[u].snap, units[u].articles)
            /\ UNCHANGED <<newsFetchErrors, errs>>
    /\ mu' = unlock(mu)
    /\ wg' = wgDone(wg, units[u].err)
    /\ units' = [units EXCEPT ![u].pc = "done", ![u].snap = <<>>]
    /\ UNCHANGED <<callerCfg, cfgNil, config, company, environ, ctxDone, pc, cfgCopy,
                   fetchers, idx, newsFetchCount, newsFetchDuration, fetchCalls, ret,
                   probe>>

\* wg.Wait() returns, and RunNewsPipeline returns.
Return ==
    /\ pc = "loop"
    /\ idx > Len(fetchers)
    /\ waitDone(wg)
    /\ ret' = result(allArticles, errs)
    /\ pc' = "returned"
    /\ UNCHANGED <<callerCfg, cfgNil, config, company, environ, ctxDone, cfgCopy,
                   fetchers, idx, units, mu, wg, allArticles, errs, newsFetchCount,
                   newsFetchErrors, newsFetchDuration, fetchCalls, probe>>

\* The caller cancels ctx, or its deadline passes.
Cancel ==
    /\ pc # "returned"
    /\ ~ctxDone
    /\ ctxDone' = TRUE
    /\ UNCHANGED <<callerCfg, cfgNil, config, company, environ, pc, cfgCopy, fetchers,
                   idx, units, mu, wg, allArticles, errs, newsFetchCount,
                   newsFetchErrors, newsFetchDuration, fetchCalls, ret, probe>>

Next ==
    \/ RunStart
    \/ Dispatch
    \/ \E u \in Slots : UnitStart(u)
    \/ \E u \in Slots : UnitFetched(u)
    \/ \E u \in Slots : UnitLock(u)
    \/ \E u \in Slots : UnitAppend(u)
    \/ Return
    \/ Cancel

Spec == Init /\ [][Next]_vars

\* ------------------------------------------- one process, several runs

\* How often the model lets one source be asked before it stops calling
\* RunNewsPipeline.
MaxCount == 2

\* The configs of the runs of one process: Marketaux and Finnhub in use or
\* not, the other two sources disabled.
RunsConfigs ==
    {MkConfig(m, f, Setting(FALSE, FALSE, 10), Setting(FALSE, FALSE, 10)) :
        m \in {Setting(TRUE, FALSE, 10), Setting(FALSE, FALSE, 10)},
        f \in {Setting(TRUE, FALSE, 10), Setting(TRUE, TRUE, 10)}}

InitRuns ==
    /\ RunIdle
    /\ cfgNil = FALSE
    /\ callerCfg \in RunsConfigs
    /\ company = "AAPL"
    /\ environ = AllKeys
    /\ probe = NoProbe

\* The process calls RunNewsPipeline again, with a new context and some
\* config: the locals of the run that returned are gone, the package
\* variables newsFetchCount, newsFetchErrors and newsFetchDuration stay.
NextRun ==
    /\ pc = "returned"
    /\ \A n \in Names : newsFetchCount[n] < MaxCount
    /\ pc' = "call"
    /\ ctxDone' = FALSE
    /\ cfgNil' = FALSE
    /\ callerCfg' \in RunsConfigs
    /\ cfgCopy' = DefaultConfig
    /\ fetchers' = <<>>
    /\ idx' = 1
    /\ units' = [u \in Slots |-> NoUnit]
    /\ mu' = 0
    /\ wg' = 0
    /\ allArticles' = <<>>
    /\ errs' = <<>>
    /\ fetchCalls' = [fn \in FetchFns |-> 0]
    /\ ret' = NoRet
    /\ UNCHANGED <<config, company, environ, newsFetchCount, newsFetchErrors,
                   newsFetchDuration, probe>>

NextRuns == Next \/ NextRun

SpecRuns == InitRuns /\ [][NextRuns]_vars

\* ------------------------------------------- deduplicateArticles on its own

SeqsUpTo(S, n) == UNION {[1..k -> S] : k \in 0..n}

\* type NewsArticle struct, for the lists handed to deduplicateArticles. Source
\* stands for the fields the function only copies (Source, Description,
\* PublishedAt): it tells two records with the same key apart.
DedupArticles == [Source : {"a", "b"}, Title : Titles, URL : URLs]

\* The arguments of a run that is never started.
NoRun ==
    /\ RunIdle
    /\ callerCfg = DefaultConfig
    /\ cfgNil = TRUE
    /\ company = "AAPL"
    /\ environ = AllKeys

\* A list of at most MaxLen records; nothing was called yet.
InitDedup ==
    /\ NoRun
    /\ probe \in {[fn |-> "deduplicateArticles", in |-> L, stage |-> 0,
                   out |-> <<>>, again |-> <<>>] : L \in SeqsUpTo(DedupArticles, MaxLen)}

\* out := deduplicateArticles(in)
CallDedup ==
    /\ probe.stage = 0
    /\ probe' = [probe EXCEPT !.stage = 1, !.out = deduplicateArticles(probe.in)]
    /\ UNCHANGED runVars

\* again := deduplicateArticles(out)
CallDedupAgain ==
    /\ probe.stage = 1
    /\ probe' = [probe EXCEPT !.stage = 2, !.again = deduplicateArticles(probe.out)]
    /\ UNCHANGED runVars

NextDedup == CallDedup \/ CallDedupAgain

SpecDedup == InitDedup /\ [][NextDedup]_vars

\* ------------------------------------------------ doGetWithRetry on its own

\* The bodies the model's servers send to a direct call: one that does not
\* decode, one that decodes to no item.
RetryBodies == {MkBody(FALSE, <<>>), MkBody(TRUE, <<>>)}

InitRetry ==
    /\ NoRun
    /\ probe \in {[fn |-> "doGetWithRetry", company |-> c, script |-> sc, stage |-> 0,
                   out |-> GetResult(NoBody, Nil, NoStats)] :
                     c \in Companies, sc \in ScriptsOver(ResponsesOver(RetryBodies))}

\* out := doGetWithRetry(ctx, url)
CallDoGet ==
    /\ probe.stage = 0
    /\ probe' = [probe EXCEPT !.stage = 1,
                              !.out = doGetWithRetry(probe.company, probe.script)]
    /\ UNCHANGED runVars

NextRetry == CallDoGet

SpecRetry == InitRetry /\ [][NextRetry]_vars

\* ------------------------------------------- fetchFromX, called on its own

\* The limits a config gives one source in a direct call of an adapter.
FetchLimits == {10, 0, -1}

\* The configs of the direct calls: the limits of Marketaux and GoogleCSE vary
\* together, those of Finnhub and EODHD together.
FetchConfigs ==
    {MkConfig(Setting(TRUE, FALSE, a), Setting(TRUE, FALSE, b),
              Setting(TRUE, FALSE, b), Setting(TRUE, FALSE, a)) :
        a \in FetchLimits, b \in FetchLimits}

\* What the network answers in the direct calls: a body that decodes to one
\* article, a body that does not decode, a failure.
FetchResponses ==
    {MkResp("resp", StatusOK, "ok", MkBody(TRUE, <<Item("m", "T1", u1)>>)),
     MkResp("resp", StatusOK, "ok", MkBody(FALSE, <<>>)),
     TransportFailure}

InitFetch ==
    /\ NoRun
    /\ probe \in {[fn |-> fn, cfg |-> c, environ |-> env, company |-> comp,
                   script |-> sc, stage |-> 0,
                   out |-> FetchResult(<<>>, Nil, 0, NoStats)] :
                     fn \in FetchFns, c \in FetchConfigs, env \in SUBSET AllKeys,
                     comp \in Companies, sc \in ScriptsOver(FetchResponses)}

\* out := fetchFromX(ctx, company, cfg)
CallFetch ==
    /\ probe.stage = 0
    /\ probe' = [probe EXCEPT !.stage = 1,
                              !.out = callFetch(probe.fn, probe.cfg, probe.environ,
                                                probe.company, probe.script)]
    /\ UNCHANGED runVars

NextFetch == CallFetch

SpecFetch == InitFetch /\ [][NextFetch]_vars

\* ------------------------------------------------------------------ claims

\* Two records tell the same story when both the URL and the title agree.
SameStory(a, b) == a.URL = b.URL /\ a.Title = b.Title

\* C7: deduplicateArticles collapses two records if and only if both their
\* URL and their title are identical: of the records of the input that agree
\* in URL and title exactly one survives, and two records that differ in the
\* URL or in the title never stand for each other.
C7_CollapseIffSameUrlAndTitle ==
    probe.stage >= 1 =>
        LET L == probe.in
            R == probe.out
        IN /\ \A i, j \in 1..Len(R) : i # j => ~SameStory(R[i], R[j])
           /\ \A i \in 1..Len(L) : \E j \in 1..Len(R) : SameStory(L[i], R[j])
           /\ \A j \in 1..Len(R) : \E i \in 1..Len(L) : R[j] = L[i]
           /\ Len(R) = Cardinality({<<L[i].URL, L[i].Title>> : i \in 1..Len(L)})

\* C7's case: a list with two records of the same URL and title, a record with
\* the same URL and another title, and the call made; two records survive.
C7_Witness ==
    /\ probe.stage >= 1
    /\ Len(probe.in) = 3
    /\ SameStory(probe.in[1], probe.in[2])
    /\ probe.in[1] # probe.in[2]
    /\ probe.in[3].URL = probe.in[1].URL
    /\ probe.in[3].Title # probe.in[1].Title
    /\ Len(probe.out) = 2

\* The positions of L that hold the first record of their URL and title.
FirstPositions(L) == {i \in 1..Len(L) : \A j \in 1..(i - 1) : ~SameStory(L[j], L[i])}

\* Whether R is L restricted to the positions P, in L's order.
IsRestriction(R, L, P) ==
    /\ Len(R) = Cardinality(P)
    /\ \A k \in 1..Len(R) :
          \E i \in P : /\ R[k] = L[i]
                       /\ Cardinality({j \in P : j < i}) = k - 1

\* C8: the output of deduplicateArticles is the subsequence of its input made
\* of the records that are the first of their deduplication key, in their
\* original order.
C8_FirstOccurrenceInOrder ==
    probe.stage >= 1 => IsRestriction(probe.out, probe.in, FirstPositions(probe.in))

\* C8's case: the first and the last record of a list of three share a key, the
\* middle one does not, and the call kept the first and the middle one.
C8_Witness ==
    /\ probe.stage >= 1
    /\ Len(probe.in) = 3
    /\ SameStory(probe.in[1], probe.in[3])
    /\ probe.in[1] # probe.in[3]
    /\ ~SameStory(probe.in[1], probe.in[2])
    /\ probe.out = <<probe.in[1], probe.in[2]>>

\* C9: deduplicateArticles is idempotent: applied to its own output it returns
\* that output.
C9_Idempotent == probe.stage = 2 => probe.again = probe.out

\* C9's case: the first call dropped a record, and the second call was made.
C9_Witness ==
    /\ probe.stage = 2
    /\ Len(probe.out) >= 2
    /\ Len(probe.out) < Len(probe.in)

\* Whether the network's answer r lets an attempt end well: a response with
\* status 200 whose body was read.
AnswerIsGood(r) == r.do = "resp" /\ r.status = 200 /\ r.read = "ok"

\* Whether e is the error of an attempt that met the answer r as attempt n.
IsErrorOf(e, r, n) ==
    /\ e.attempt = n
    /\ e.kind = (IF r.do = "transport" THEN "transport"
                 ELSE IF r.do = "ctx" THEN "ctx"
                 ELSE IF r.status # 200 THEN "status" ELSE "read")
    /\ e.status = (IF r.do = "resp" /\ r.status # 200 THEN r.status ELSE 0)

\* C10: one call of doGetWithRetry makes at most 3 attempts; when attempts are
\* made and every one fails, it makes exactly 3 and returns the error of the
\* third; it stops at the first attempt that succeeds, with that attempt's body
\* and a nil error.
C10_RetryBound ==
    probe.stage = 1 =>
        LET o == probe.out
            sc == probe.script
        IN /\ o.attempts <= 3
           /\ (o.attempts >= 1 /\ \A i \in 1..o.attempts : ~AnswerIsGood(sc[i]))
                 => /\ o.attempts = 3
                    /\ o.err # Nil
                    /\ IsErrorOf(o.err, sc[3], 3)
                    /\ o.body.isNil
           /\ \A k \in 1..3 :
                 (o.attempts >= 1 /\ AnswerIsGood(sc[k]) /\ \A i \in 1..(k - 1) : ~AnswerIsGood(sc[i]))
                 => /\ o.attempts = k
                    /\ o.err = Nil
                    /\ o.body = sc[k].body
           /\ o.attempts = 0 => newRequestFails(probe.company)

\* C10's case: three attempts that fail in three different ways, and the call
\* returned.
C10_Witness ==
    /\ probe.stage = 1
    /\ probe.script[1].do = "transport"
    /\ probe.script[2].do = "resp" /\ probe.script[2].status = 500
    /\ probe.script[3].do = "resp" /\ probe.script[3].status = 200
    /\ probe.script[3].read = "err"
    /\ probe.out.attempts = 3
    /\ probe.out.err.kind = "read"

\* ---- claims about RunNewsPipeline

\* The config a run works on: the caller's, or the default for a nil cfg.
Supplied == IF cfgNil THEN config ELSE callerCfg

\* The settings of the source at position k of the table, in the config c.
SettingOf(c, k) ==
    CASE k = 1 -> Setting(c.UseMarketaux, c.SkipMarketaux, c.MarketauxLimit)
      [] k = 2 -> Setting(c.UseFinnhub, c.SkipFinnhub, c.FinnhubLimit)
      [] k = 3 -> Setting(c.UseEODHD, c.SkipEODHD, c.EODHDLimit)
      [] k = 4 -> Setting(c.UseGoogleCSE, c.SkipGoogleCSE, c.GoogleCSELimit)

\* enabled && !skip && limit > 0
Participates(k) ==
    LET st == SettingOf(Supplied, k) IN st.use /\ ~st.skip /\ st.limit > 0

\* The fetch function of the source at position k, and the Source value that
\* marks the records of its feed.
FnAt(k) == <<"fetchFromMarketaux", "fetchFromFinnhub", "fetchFromEODHD", "fetchFromGoogleCSE">>[k]

MarkAt(k) == <<"m", "f", "e", "g">>[k]

Dispatched == {u \in Slots : units[u].pc # "none"}

Failed == {u \in Slots : units[u].pc \in {"fetched", "locked", "done"} /\ units[u].err # Nil}

Succeeded == {u \in Slots : units[u].pc \in {"fetched", "locked", "done"} /\ units[u].err = Nil}

\* Whether block is a run of consecutive elements of list.
IsBlockOf(block, list) ==
    \E off \in 0..(Len(list) - Len(block)) :
        \A i \in 1..Len(block) : list[off + i] = block[i]

\* The entries of the error list es that carry the name of position k.
EntriesOf(es, k) == {i \in 1..Len(es) : es[i].source = SourceNames[k]}

RECURSIVE SumLen(_)
SumLen(S) ==
    IF S = {} THEN 0
    ELSE LET u == CHOOSE x \in S : TRUE IN Len(units[u].articles) + SumLen(S \ {u})

\* C1: when RunNewsPipeline has returned, no unit is still running, and every
\* dispatched source has either all the articles its fetch returned in the
\* shared accumulator, as one block, or exactly one error in the error list;
\* the accumulator and the error list hold nothing else.
C1_ReturnsAfterAllUnits ==
    pc = "returned" =>
        /\ \A u \in Slots : units[u].pc \in {"none", "done"}
        /\ \A u \in Slots : Participates(u) => units[u].pc = "done"
        /\ \A u \in Dispatched :
              IF units[u].err = Nil
              THEN IsBlockOf(units[u].articles, allArticles) /\ EntriesOf(errs, u) = {}
              ELSE Cardinality(EntriesOf(errs, u)) = 1
        /\ Len(allArticles) = SumLen(Succeeded)
        /\ Len(errs) = Cardinality(Failed)

\* C1's case: four sources were dispatched, one failed and three succeeded, and
\* the run has returned.
C1_Witness ==
    /\ pc = "returned"
    /\ Dispatched = Slots
    /\ Cardinality(Failed) = 1
    /\ Cardinality(Succeeded) = 3

\* The sequences that list every element of the set S once.
Orders(S) == {o \in [1..Cardinality(S) -> S] : \A i, j \in 1..Cardinality(S) : i # j => o[i] # o[j]}

RECURSIVE Concat(_, _)
\* The articles the units o[i], o[i+1], ... returned, one after the other.
Concat(o, i) == IF i > Len(o) THEN <<>> ELSE units[o[i]].articles \o Concat(o, i + 1)

\* C2: whatever sources fail, the returned article list is the deduplication of
\* the concatenated articles of the dispatched sources that did not fail, and a
\* source that did not fail returned its whole feed.
C2_PartialSuccessKept ==
    pc = "returned" =>
        /\ \E o \in Orders(Dispatched \ Failed) :
              ret.articles = deduplicateArticles(Concat(o, 1))
        /\ \A u \in Dispatched \ Failed :
              /\ units[u].articles = toArticles(Feed(SourceNames[u]))
              /\ \A i \in 1..Len(units[u].articles) :
                    \E j \in 1..Len(ret.articles) : SameStory(units[u].articles[i], ret.articles[j])

\* C2's case: four sources, two fail and two succeed, and the run returned the
\* records of the two.
C2_Witness ==
    /\ pc = "returned"
    /\ Dispatched = Slots
    /\ Cardinality(Failed) = 2
    /\ Len(ret.articles) >= 2

\* C3: the error RunNewsPipeline returns is nil if and only if no dispatched
\* source failed; else it holds one entry for every failed source, carrying the
\* name of the source whose fetch function the unit called and the error that
\* call returned, and no entry for a source that succeeded or was skipped. A
\* run without any participating source returns no article and a nil error.
C3_CompositeError ==
    pc = "returned" =>
        /\ ret.err.isNil <=> Failed = {}
        /\ Len(ret.err.errs) = Cardinality(Failed)
        /\ \A u \in Failed :
              /\ Cardinality(EntriesOf(ret.err.errs, u)) = 1
              /\ \A i \in EntriesOf(ret.err.errs, u) : ret.err.errs[i].err = units[u].err
              /\ units[u].called = FnAt(u)
        /\ \A u \in Slots \ Failed : EntriesOf(ret.err.errs, u) = {}
        /\ (\A u \in Slots : ~Participates(u)) => (ret.articles = <<>> /\ ret.err.isNil)

\* C3's case: two sources failed, one succeeded, one was skipped, and the run
\* has returned.
C3_Witness ==
    /\ pc = "returned"
    /\ Cardinality(Failed) = 2
    /\ Cardinality(Succeeded) = 1
    /\ ~ret.err.isNil

\* C4: a source is dispatched if and only if it is enabled, not skipped and
\* has a positive limit in the supplied config; a source that fails the test
\* has no goroutine, no request counted, no call of its fetch function, and
\* neither articles nor an error in the accumulators or the result.
C4_ParticipationTest ==
    \A k \in Slots :
        /\ (pc # "call" /\ idx > k) => (units[k].pc # "none" <=> Participates(k))
        /\ ~Participates(k) =>
              /\ units[k].pc = "none"
              /\ newsFetchCount[SourceNames[k]] = 0
              /\ newsFetchDuration[SourceNames[k]] = 0
              /\ newsFetchErrors[SourceNames[k]] = 0
              /\ fetchCalls[FnAt(k)] = 0
              /\ \A i \in 1..Len(allArticles) : allArticles[i].Source # MarkAt(k)
              /\ \A i \in 1..Len(ret.articles) : ret.articles[i].Source # MarkAt(k)
              /\ EntriesOf(errs, k) = {}
              /\ EntriesOf(ret.err.errs, k) = {}

\* C4's case: a run has returned for a config with one source skipped though
\* enabled, one without a limit, one disabled, and one that took part.
C4_Witness ==
    /\ pc = "returned"
    /\ ~cfgNil
    /\ \E a, b, c, d \in Slots :
          /\ SettingOf(callerCfg, a) = Setting(TRUE, TRUE, 10)
          /\ SettingOf(callerCfg, b) = Setting(TRUE, FALSE, 0)
          /\ SettingOf(callerCfg, c) = Setting(FALSE, FALSE, 10)
          /\ units[d].pc = "done"

\* C5: in a run every fetch function is called at most once, and the function
\* a unit calls is the one of the source whose name the unit carries.
C5_EachSourceOnce ==
    /\ \A fn \in FetchFns : fetchCalls[fn] <= 1
    /\ \A u \in Slots :
          units[u].called # "" =>
              /\ units[u].name = SourceNames[u]
              /\ units[u].called = FnAt(u)

\* C5's case: all four units have called their fetch function.
C5_Witness == \A u \in Slots : units[u].pc = "done" /\ fetchCalls[FnAt(u)] = 1

\* C6: no two entries of the returned article list have the same URL and the
\* same title.
C6_NoDuplicateKeys ==
    pc = "returned" =>
        \A i, j \in 1..Len(ret.articles) : i # j => ~SameStory(ret.articles[i], ret.articles[j])

\* C6's case: the run returned fewer records than the sources delivered, the
\* same story having come from two sources.
C6_Witness ==
    /\ pc = "returned"
    /\ Len(ret.articles) >= 2
    /\ \E i, j \in 1..Len(allArticles) :
          /\ i # j
          /\ SameStory(allArticles[i], allArticles[j])
          /\ allArticles[i].Source # allArticles[j].Source

\* ---- claims about doGetWithRetry, continued

\* The first attempt of the script sc that meets the context's error, 0 when
\* none does.
FirstCtx(sc) ==
    IF \E k \in 1..3 : sc[k].do = "ctx"
    THEN CHOOSE k \in 1..3 : sc[k].do = "ctx" /\ \A i \in 1..(k - 1) : sc[i].do # "ctx"
    ELSE 0

\* C11: a cancellation error is not retried: when an attempt of doGetWithRetry
\* meets the context's error, the call returns that error without a delay and
\* without a further attempt.
C11_CancelNotRetried ==
    (probe.stage = 1 /\ probe.out.attempts >= 1 /\ FirstCtx(probe.script) # 0
        /\ probe.out.attempts >= FirstCtx(probe.script))
    => /\ probe.out.attempts = FirstCtx(probe.script)
       /\ probe.out.err.kind = "ctx"
       /\ probe.out.sleeps <= FirstCtx(probe.script) - 1

C19_DelayOnlyBetweenAttempts ==
    (probe.stage = 1 /\ probe.out.attempts >= 1) =>
        /\ probe.out.sleeps <= probe.out.attempts - 1
        /\ (probe.out.attempts = 3 /\ probe.out.err # Nil) => probe.out.sleeps = 2

\* C20: every response doGetWithRetry obtained was read and closed on the
\* attempt that received it: no body is open when an attempt begins, nor when
\* the call returns.
C20_BodiesReadAndClosed ==
    probe.stage = 1 =>
        LET o == probe.out
        IN /\ o.opened = Cardinality({k \in 1..o.attempts : probe.script[k].do = "resp"})
           /\ o.drained = o.opened
           /\ o.closed = o.opened
           /\ Len(o.openAtStart) = o.attempts
           /\ \A k \in 1..Len(o.openAtStart) : o.openAtStart[k] = 0

\* C20's case: a bad status, then a body that fails to read, then a good
\* answer: three responses were obtained, and the call returned.
C20_Witness ==
    /\ probe.stage = 1
    /\ probe.script[1].do = "resp" /\ probe.script[1].status = 500
    /\ probe.script[2].do = "resp" /\ probe.script[2].status = 200
    /\ probe.script[2].read = "err"
    /\ AnswerIsGood(probe.script[3])
    /\ probe.out.opened = 3
    /\ probe.out.err = Nil

\* ---- claims about the adapters

\* The limit the config c gives the source of the adapter fn.
OwnLimit(fn, c) ==
    CASE fn = "fetchFromMarketaux" -> c.MarketauxLimit
      [] fn = "fetchFromFinnhub" -> c.FinnhubLimit
      [] fn = "fetchFromEODHD" -> c.EODHDLimit
      [] fn = "fetchFromGoogleCSE" -> c.GoogleCSELimit

IsConfigError(err) == err # Nil /\ err.kind \in {"limit reached", "key not set"}

\* C14: an adapter returns a configuration error exactly when its own limit is
\* not positive or one of its own credentials is missing, whatever the other
\* sources' limits and credentials are, and then it returns no article and has
\* made no call of doGetWithRetry, no HTTP attempt and no retry delay.
C14_ConfigErrorBeforeIO ==
    probe.stage = 1 =>
        LET bad == \/ OwnLimit(probe.fn, probe.cfg) <= 0
                   \/ ~(KeysOf(probe.fn) \subseteq probe.environ)
        IN /\ IsConfigError(probe.out.err) <=> bad
           /\ bad => /\ probe.out.articles = <<>>
                     /\ probe.out.gets = 0
                     /\ probe.out.attempts = 0
                     /\ probe.out.sleeps = 0
                     /\ probe.out.opened = 0

\* C14's case: GoogleCSE, with a positive limit and one of its two credentials
\* missing, called when the network would answer, returned its error.
C14_Witness ==
    /\ probe.stage = 1
    /\ probe.fn = "fetchFromGoogleCSE"
    /\ probe.cfg.GoogleCSELimit > 0
    /\ "GOOGLE_CSE_API_KEY" \in probe.environ
    /\ "GOOGLE_CSE_ID" \notin probe.environ
    /\ probe.company = "AAPL"
    /\ AnswerIsGood(probe.script[1])
    /\ probe.out.err.kind = "key not set"

\* ---- claims about the pipeline, continued

\* C15: no step of a run changes the config the caller passed or the default
\* config; once cfgCopy is taken no step changes it, so that it stays equal to
\* the config supplied, and the table the units were dispatched from stays the
\* table of that config.
C15_ConfigsNotMutated ==
    [][/\ callerCfg' = callerCfg
       /\ config' = config
       /\ pc # "call" => cfgCopy' = cfgCopy
       /\ pc' # "call" => (cfgCopy' = Supplied' /\ fetchers' = Fetchers(Supplied'))]_vars

\* C15's case: a run with a config of the caller's returned after two of its
\* sources fetched, one with articles and one with an error.
C15_Witness ==
    /\ pc = "returned"
    /\ ~cfgNil
    /\ \E u, v \in Slots : /\ units[u].pc = "done" /\ units[u].err = Nil
                           /\ units[v].pc = "done" /\ units[v].err # Nil
    /\ cfgCopy = callerCfg

\* The units inside the critical section.
InCritical == {u \in Slots : units[u].pc = "locked"}

\* The units whose append is done.
Appended == {u \in Slots : units[u].pc = "done"}

\* C17: at most one unit is in the critical section and it holds mu; the
\* accumulators change only in a step of the unit that holds mu; no append is
\* lost: the article accumulator is the blocks of the units that succeeded and
\* are done, each whole and contiguous, and the error list has one entry for
\* each unit that failed and is done; the run returns what deduplication makes
\* of the accumulators only when every dispatched unit is done.
C17_CriticalSection ==
    /\ Cardinality(InCritical) <= 1
    /\ \A u \in Slots : u \in InCritical <=> mu = u
    /\ \A u \in InCritical :
          units[u].snap = IF units[u].err # Nil THEN errs ELSE allArticles
    /\ \E o \in Orders(Appended \ Failed) : allArticles = Concat(o, 1)
    /\ Len(errs) = Cardinality(Appended \cap Failed)
    /\ \A u \in Appended \cap Failed :
          \E i \in 1..Len(errs) : errs[i] = wrapErr(SourceNames[u], units[u].err)
    /\ pc = "returned" => /\ Dispatched = Appended
                          /\ mu = 0
                          /\ ret = result(allArticles, errs)

\* C17's case: one unit is in the critical section about to append its
\* articles to those of another, while a third waits for mu.
C17_Witness ==
    \E u, v, w \in Slots :
        /\ units[u].pc = "locked" /\ units[u].err = Nil /\ units[u].articles # <<>>
        /\ units[v].pc = "done" /\ units[v].err = Nil /\ allArticles # <<>>
        /\ units[w].pc = "fetched"

\* C18: the output order is the completion order: a unit that succeeded puts
\* its articles, as one block, behind everything the units that completed
\* before it put there, and the run returns the accumulator restricted to the
\* first record of every URL and title, in the accumulator's order, so that
\* the survivor of two records with one key is that of the source that
\* completed first.
C18_CompletionOrder ==
    [][/\ \A u \in Slots :
             (units[u].pc = "locked" /\ units'[u].pc = "done" /\ units[u].err = Nil)
                 => allArticles' = allArticles \o units[u].articles
       /\ pc' = "returned" =>
             IsRestriction(ret'.articles, allArticles', FirstPositions(allArticles'))]_vars

\* C18's case: Marketaux and EODHD both succeeded, EODHD completed first
\* though it is declared later, and of their common story the run returned
\* EODHD's record.
C18_Witness ==
    /\ pc = "returned"
    /\ units[1].pc = "done" /\ units[1].err = Nil
    /\ units[3].pc = "done" /\ units[3].err = Nil
    /\ \E i, j \in 1..Len(allArticles) :
          i < j /\ allArticles[i].Source = "e" /\ allArticles[j].Source = "m"
    /\ allArticles[1].Source = "e"
    /\ \E k \in 1..Len(ret.articles) :
          /\ ret.articles[k].URL = u1 /\ ret.articles[k].Title = "T1"
          /\ ret.articles[k].Source = "e"

\* The declared order is reached as well: Marketaux completed before EODHD and
\* the run returned Marketaux's record of their common story.
C18_DeclaredOrderReached ==
    /\ pc = "returned"
    /\ units[1].pc = "done" /\ units[1].err = Nil
    /\ units[3].pc = "done" /\ units[3].err = Nil
    /\ allArticles[1].Source = "m"
    /\ \E k \in 1..Len(ret.articles) :
          /\ ret.articles[k].URL = u1 /\ ret.articles[k].Title = "T1"
          /\ ret.articles[k].Source = "m"

\* The units whose call of fetch began before the context ended and has not
\* returned yet.
InFlightAtCancel == {u \in Slots : units[u].pc = "inflight" /\ ~units[u].ctxAtStart /\ ctxDone}

\* C12 as stated, its finite part: a unit whose fetch was in flight when the
\* context was cancelled comes back with a cancellation error.
C12_InFlightYieldCancelError ==
    [][\A u \in Slots :
          (u \in InFlightAtCancel /\ units'[u].pc = "fetched")
              => (units'[u].err # Nil /\ units'[u].err.kind = "ctx")]_vars

\* What a run that returns after a cancellation returns: every dispatched unit
\* is done, the result has the records of every unit that succeeded and one
\* error carrying its source's name for every unit that failed.
ResultAfterCancel ==
    /\ Dispatched = Appended
    /\ mu = 0
    /\ \A u \in Appended \ Failed :
          \A i \in 1..Len(units[u].articles) :
              \E j \in 1..Len(ret.articles) :
                  SameStory(units[u].articles[i], ret.articles[j])
    /\ \A u \in Appended \cap Failed :
          Cardinality({i \in 1..Len(ret.err.errs) :
                          ret.err.errs[i] = wrapErr(SourceNames[u], units[u].err)}) = 1
    /\ Len(ret.err.errs) = Cardinality(Failed)

\* Whether a step other than a cancellation can be taken.
CanStep ==
    \/ pc = "call"
    \/ pc = "loop" /\ idx <= Len(fetchers)
    \/ \E u \in Slots : units[u].pc \in {"spawned", "locked"}
    \/ \E u \in Slots :
          /\ units[u].pc = "inflight"
          /\ RunScripts(units[u].fetch, units[u].ctxAtStart, ctxDone) # {}
    \/ \E u \in Slots : units[u].pc = "fetched" /\ lockFree(mu)
    \/ pc = "loop" /\ idx > Len(fetchers) /\ waitDone(wg)

\* The steps a run has before it at most: one for the call, four for a source
\* not yet looked at (its dispatch and the three steps of its unit after the
\* start), the steps left to every unit, one for the return.
UnitStepsLeft(u) ==
    CASE units[u].pc = "spawned" -> 4
      [] units[u].pc = "inflight" -> 3
      [] units[u].pc = "fetched" -> 2
      [] units[u].pc = "locked" -> 1
      [] OTHER -> 0

StepsLeft ==
    (IF pc = "call" THEN 1 + 5 * Len(SourceNames) ELSE 5 * (Len(fetchers) + 1 - idx))
    + UnitStepsLeft(1) + UnitStepsLeft(2) + UnitStepsLeft(3) + UnitStepsLeft(4)
    + (IF pc = "returned" THEN 0 ELSE 1)

\* C12, amended: a run whose context is cancelled returns: until it has
\* returned a step can be taken, and every step takes at least one from the
\* steps left; it returns only when every dispatched unit is done; nothing a
\* unit has appended is taken back, and the result has the records of every
\* unit that succeeded and one error with its source's name for every unit
\* that failed; a call of fetch that returns after the cancellation returns
\* its whole feed or an error and no article; a call that began after the
\* cancellation returns an error, the context's from its third attempt unless
\* the adapter made no attempt.
C12_CancelledRunReturns ==
    [][/\ Len(allArticles') >= Len(allArticles)
       /\ SubSeq(allArticles', 1, Len(allArticles)) = allArticles
       /\ Len(errs') >= Len(errs)
       /\ SubSeq(errs', 1, Len(errs)) = errs
       /\ ctxDone' = ctxDone => StepsLeft' < StepsLeft
       /\ StepsLeft' >= 0
       /\ (ctxDone' /\ pc' # "returned") => CanStep'
       /\ (ctxDone' /\ pc' = "returned") => ResultAfterCancel'
       /\ \A u \in Slots :
             (ctxDone /\ units[u].pc = "inflight" /\ units'[u].pc = "fetched") =>
                 /\ units'[u].err = Nil =>
                       units'[u].articles = toArticles(Feed(SourceNames[u]))
                 /\ units'[u].err # Nil => units'[u].articles = <<>>
                 /\ units[u].ctxAtStart =>
                       \/ IsConfigError(units'[u].err)
                       \/ units'[u].err = MkErr("request", 0, 0)
                       \/ units'[u].err = MkErr("ctx", MaxAttempts, 0)]_vars

\* C12's case: the context was cancelled while one unit was in flight, after
\* another had completed with articles and while a third had not begun.
C12_Witness ==
    \E u, v, w \in Slots :
        /\ u \in InFlightAtCancel
        /\ units[v].pc = "done" /\ units[v].err = Nil /\ allArticles # <<>>
        /\ units[w].pc = "spawned"

\* ---- claims about the counters

\* The units of the source n that take the step from one pc to another.
Stepping(n, from, to) ==
    {u \in Slots : units[u].name = n /\ units[u].pc = from /\ units'[u].pc = to}

FirstGood(sc) ==
    IF \E k \in 1..3 : AnswerIsGood(sc[k])
    THEN CHOOSE k \in 1..3 : AnswerIsGood(sc[k]) /\ \A i \in 1..(k - 1) : ~AnswerIsGood(sc[i])
    ELSE 0

\* Whether the call of the probe passes the adapter's checks of its limit and
\* its credentials and builds a request.
ProbeFetches ==
    /\ OwnLimit(probe.fn, probe.cfg) > 0
    /\ KeysOf(probe.fn) \subseteq probe.environ
    /\ ~newRequestFails(probe.company)

\* C21: a parse error is not retried: an adapter whose doGetWithRetry call
\* ended with a body that does not decode returns the decode error and no
\* article, having called doGetWithRetry exactly once and made no attempt
\* beyond the one that received that body; and it returns the decode error in
\* no other case.
C21_ParseErrorNotRetried ==
    probe.stage = 1 =>
        LET k == FirstGood(probe.script)
            undecodable == ProbeFetches /\ k # 0 /\ ~probe.script[k].body.valid
        IN /\ (probe.out.err # Nil /\ probe.out.err.kind = "unmarshal") <=> undecodable
           /\ undecodable => /\ probe.out.articles = <<>>
                             /\ probe.out.gets = 1
                             /\ probe.out.attempts = k
                             /\ probe.out.opened =
                                   Cardinality({i \in 1..k : probe.script[i].do = "resp"})
                             /\ probe.out.closed = probe.out.opened

\* C21's case: the first attempt fails, the second receives a body that does
\* not decode, the third would have received one that does; the adapter
\* returned the decode error after two attempts.
C21_Witness ==
    /\ probe.stage = 1
    /\ ProbeFetches
    /\ probe.script[1] = TransportFailure
    /\ AnswerIsGood(probe.script[2]) /\ ~probe.script[2].body.valid
    /\ AnswerIsGood(probe.script[3]) /\ probe.script[3].body.valid
    /\ probe.out.err.kind = "unmarshal"
    /\ probe.out.attempts = 2

\* ---- claims about the result as a function of the sources' outcomes

\* The URL and title pairs of the records of the list L.
StoriesOf(L) == {<<L[i].URL, L[i].Title>> : i \in 1..Len(L)}

\* The URL and title pairs the units that succeeded returned, whatever the
\* order they completed in.
StoriesFetched == UNION {StoriesOf(units[u].articles) : u \in Dispatched \ Failed}

\* C22: what a run returns depends on the outcomes of its sources and not on
\* the order its units completed in: the URL and title pairs of the returned
\* list are those the succeeding sources returned, its length is their
\* number, and the sources named in the composite error are those that
\* failed. With Marketaux returning u1/T1 and u2/T1, EODHD returning u1/T1 and
\* u3/T2 and no other source taking part, the result is the three pairs
\* u1/T1, u2/T1, u3/T2 and a nil error.
C22_ResultIndependentOfOrder ==
    pc = "returned" =>
        /\ StoriesOf(ret.articles) = StoriesFetched
        /\ Len(ret.articles) = Cardinality(StoriesFetched)
        /\ {ret.err.errs[i].source : i \in 1..Len(ret.err.errs)}
              = {SourceNames[u] : u \in Failed}
        /\ (Dispatched = {1, 3} /\ Failed = {}) =>
              /\ units[1].articles = toArticles(<<Item("m", "T1", u1), Item("m", "T1", u2)>>)
              /\ units[3].articles = toArticles(<<Item("e", "T1", u1), Item("e", "T2", u3)>>)
              /\ StoriesOf(ret.articles) = {<<u1, "T1">>, <<u2, "T1">>, <<u3, "T2">>}
              /\ Len(ret.articles) = 3
              /\ ret.err.isNil

\* C22's case: the example, with EODHD completing before Marketaux: the run
\* returned three records and a nil error.
C22_Witness ==
    /\ pc = "returned"
    /\ Dispatched = {1, 3}
    /\ Failed = {}
    /\ allArticles[1].Source = "e"
    /\ Len(allArticles) = 4
    /\ Len(ret.articles) = 3
    /\ ret.err.isNil

\* The example with Marketaux completing first is reached as well.
C22_OtherOrderReached ==
    /\ pc = "returned"
    /\ Dispatched = {1, 3}
    /\ Failed = {}
    /\ allArticles[1].Source = "m"
    /\ Len(ret.articles) = 3

\* ---- claims about termination

\* The units that were started and are not done.
Running == {u \in Slots : units[u].pc \notin {"none", "done"}}

\* C23: every run returns: until it has returned a step can be taken, so that
\* no interleaving is stuck at the mutex or at the barrier, and every step
\* but a cancellation takes at least one from the steps left; a unit that
\* ends its critical section, with articles or with an error, releases the
\* mutex and signals the wait group, whose counter is the number of units
\* running; the mutex is held only by a unit in its critical section.
C23_EveryRunReturns ==
    [][/\ pc # "returned" => CanStep
       /\ pc' # "returned" => CanStep'
       /\ ctxDone' = ctxDone => (StepsLeft' < StepsLeft /\ StepsLeft' >= 0)
       /\ \A u \in Slots :
             (units[u].pc = "locked" /\ units'[u].pc = "done") =>
                 (mu = u /\ mu' = 0 /\ wg' = wg - 1)
       /\ wg' = Cardinality(Running')
       /\ mu' # 0 => (mu' \in Slots /\ units'[mu'].pc = "locked")
       /\ pc' = "returned" => (Running' = {} /\ mu' = 0 /\ wg' = 0)]_vars

\* C23's case: a run of all four sources that was not cancelled returned, one
\* unit at least having left its critical section by the early return of the
\* error branch and one with its articles.
C23_Witness ==
    /\ pc = "returned"
    /\ Cardinality(Failed) >= 1
    /\ Cardinality(Dispatched \ Failed) >= 1
    /\ Dispatched = Slots
    /\ ~ctxDone
    /\ wg = 0

\* ---- claims about the limit check

\* C24: within a run the adapters' limit check never fires: every unit's fetch
\* function finds a positive limit for its source in cfgCopy, from its
\* dispatch on, and no unit's error is the adapter's limit error; a source
\* whose limit is not positive has no unit.
C24_LimitCheckUnreachableInRun ==
    \A u \in Slots :
        /\ units[u].pc # "none" =>
              /\ OwnLimit(units[u].fetch, cfgCopy) > 0
              /\ OwnLimit(units[u].fetch, Supplied) > 0
              /\ units[u].err # Nil => units[u].err.kind # "limit reached"
        /\ (pc # "call" /\ OwnLimit(FnAt(u), cfgCopy) <= 0) => units[u].pc = "none"

\* C24's case: a run whose config enables Marketaux with a limit that is not
\* positive returned: Marketaux had no unit, and Finnhub's adapter returned
\* its other configuration error.
C24_Witness ==
    /\ pc = "returned"
    /\ cfgCopy.UseMarketaux /\ ~cfgCopy.SkipMarketaux /\ cfgCopy.MarketauxLimit <= 0
    /\ units[1].pc = "none"
    /\ units[2].pc = "done" /\ units[2].err # Nil /\ units[2].err.kind = "key not set"

\* Called directly, an adapter does return its limit error.
C24_DirectCallReaches ==
    /\ probe.stage = 1
    /\ OwnLimit(probe.fn, probe.cfg) <= 0
    /\ probe.out.err.kind = "limit reached"

====
